---- MODULE Spec2Model ----
(***************************************************************************)
(* A model of src/src/c_str.rs: the ownership and lifetime rules of the    *)
(* three C-string wrappers CStrBuf, CString and BorrowedCString, the       *)
(* ToCStr conversions and the scoped-access helpers.                       *)
(*                                                                         *)
(* Memory is a flat array of bytes.  Addresses 1..MaxLen+1 hold a foreign  *)
(* (static) null-terminated buffer, the addresses above it are the heap    *)
(* that libc::malloc hands out.  Address 0 is the null pointer.            *)
(***************************************************************************)
EXTENDS Integers, Sequences, FiniteSets, TLC

\* ------------------------------------------------------------- bounds
\* Longest byte slice / foreign string (terminator excluded).
MaxLen == 3
\* Number of program variables that can hold a CStrBuf or CString at once.
MaxObjs == 2
\* Most segments of a multistring.
MaxSegs == 2

\* ---------------------------------------------------------- constants
NUL == 0
NULL == 0
\* A byte whose value is indeterminate: fresh from malloc, freed, or
\* mem::uninitialized().
Uninit == 256

StaticLo == NULL + 1
StaticHi == MaxLen + 1
HeapLo == StaticHi + 1
HeapHi == StaticHi + MaxObjs * (MaxLen + 1)
Addrs == StaticLo..HeapHi

\* The byte sequences of length len that inputs are drawn from: the bytes
\* 1, 2, 1, ... with a zero byte at position z (none when z = 0).
Pattern(len, z) == [k \in 1..len |-> IF k = z THEN 0 ELSE 2 - (k % 2)]

ByteSeqs == {Pattern(len, z) : len \in 0..MaxLen, z \in 0..MaxLen}

\* mem:    the byte at each address
\* blocks: the live heap blocks
\* objs:   the program's variables, each empty or holding a CStrBuf or CString
\* calls:  per variable, the release closures called for the value it holds or
\*         last held, with their argument
\* born:   per variable, how that value was constructed and what became of it
\* ret:    the last operation and what it returned
\* frame:  the call of with_c_str / with_c_str_len in progress, if any
VARIABLES mem, blocks, objs, calls, born, ret, frame

vars == <<mem, blocks, objs, calls, born, ret, frame>>

\* ------------------------------------------------------------ helpers
contains(v, b) == \E k \in 1..Len(v) : v[k] = b

\* The byte a read of address a gives; outside the mapped addresses it is
\* indeterminate.
Load(m, a) == IF a \in DOMAIN m THEN m[a] ELSE Uninit

\* The bytes at ptr .. ptr+len-1.
MemRead(m, ptr, len) == [k \in 1..len |-> Load(m, ptr + k - 1)]

RECURSIVE strlen(_, _)
strlen(m, ptr) == IF Load(m, ptr) = NUL THEN 0 ELSE 1 + strlen(m, ptr + 1)

\* The addresses strlen reads, in order.
strlen_reads(m, ptr) == [k \in 1..(strlen(m, ptr) + 1) |-> ptr + k - 1]

\* ---------------------------------------------------------- allocator
\* The heap is the mapped addresses from HeapLo up.
HeapTop(m) == CHOOSE a \in DOMAIN m : \A b \in DOMAIN m : b <= a

Fits(bl, top, b, size) ==
    /\ b + size - 1 <= top
    /\ \A blk \in bl : ~(b + size > blk.base /\ blk.base + blk.size > b)

CanMalloc(w, size) ==
    \E top \in {HeapTop(w.mem)} :
        \E b \in HeapLo..top : Fits(w.blocks, top, b, size)

\* libc::malloc: the lowest free range of the heap; its bytes are
\* indeterminate.  Exhaustion aborts the process (CanMalloc guards it).
libc_malloc(w, size) ==
    LET top == HeapTop(w.mem)
        b == CHOOSE b \in HeapLo..top :
                 /\ Fits(w.blocks, top, b, size)
                 /\ \A c \in HeapLo..(b - 1) : ~Fits(w.blocks, top, c, size)
    IN  [w |-> [w EXCEPT !.blocks = @ \cup {[base |-> b, size |-> size]}],
         ptr |-> b]

\* libc::free: the block at buf is no longer live, its bytes indeterminate.
libc_free(w, buf) ==
    LET gone == {blk \in w.blocks : blk.base = buf}
    IN  [w EXCEPT !.blocks = @ \ gone,
                  !.mem = [a \in DOMAIN w.mem |->
                              IF \E blk \in gone :
                                    a \in blk.base..(blk.base + blk.size - 1)
                              THEN Uninit ELSE w.mem[a]]]

\* A call of a release closure f with argument arg; id names the variable
\* whose value the closure was given to.
Invoke(w, f, arg, id) ==
    LET w1 == IF f = "libc_free" THEN libc_free(w, arg) ELSE w
    IN  [w1 EXCEPT !.calls[id] = Append(@, [fn |-> f, arg |-> arg])]

\* ------------------------------------------------------------ CStrBuf
Panic(reads) == [ok |-> FALSE, val |-> "panic", reads |-> reads]
Ok(val, reads) == [ok |-> TRUE, val |-> val, reads |-> reads]

CStrBuf_new_internal(ptr, maybe_dtor) == [ptr |-> ptr, dtor |-> maybe_dtor]

CStrBuf_new_unowned(ptr) ==
    IF ptr = NULL THEN Panic(<<>>)
    ELSE Ok(CStrBuf_new_internal(ptr, "None"), <<>>)

CStrBuf_new_with_dtor(ptr, dtor) ==
    IF ptr = NULL THEN Panic(<<>>)
    ELSE Ok(CStrBuf_new_internal(ptr, dtor), <<>>)

CStrBuf_new_libc(ptr) == CStrBuf_new_with_dtor(ptr, "libc_free")

\* impl Drop for CStrBuf: take the closure, call it if there was one.
CStrBuf_drop(w, self, id) ==
    IF self.dtor = "None" THEN w
    ELSE Invoke(w, self.dtor, self.ptr, id)

\* A promotion that leaves the closure with self.
CStrBuf_into_c_str_stay(w, self, id) ==
    LET new == [buf |-> [ptr |-> self.ptr, dtor |-> "None"],
                len |-> strlen(w.mem, self.ptr)]
    IN  [val |-> new, w |-> CStrBuf_drop(w, self, id)]

\* A promotion that copies the closure and leaves it in self as well.
CStrBuf_into_c_str_copy(w, self, id) ==
    LET new == [buf |-> [ptr |-> self.ptr, dtor |-> self.dtor],
                len |-> strlen(w.mem, self.ptr)]
    IN  [val |-> new, w |-> CStrBuf_drop(w, self, id)]

\* into_c_str(mut self): the new CString takes the closure out of self;
\* self is dropped when the method returns.
CStrBuf_into_c_str(w, self, id) ==
    LET new  == [buf |-> [ptr |-> self.ptr, dtor |-> self.dtor],
                 len |-> strlen(w.mem, self.ptr)]
        rest == [self EXCEPT !.dtor = "None"]
    IN  [val |-> new, w |-> CStrBuf_drop(w, rest, id)]

\* An unwrap that leaves the closure in self.
CStrBuf_unwrap_keep(w, self, id) ==
    [val |-> self.ptr, w |-> CStrBuf_drop(w, self, id)]

\* unwrap(mut self): clear the closure, return the pointer; self is
\* dropped when the method returns.
CStrBuf_unwrap(w, self, id) ==
    LET rest == [self EXCEPT !.dtor = "None"]
    IN  [val |-> rest.ptr, w |-> CStrBuf_drop(w, rest, id)]

CStrBuf_as_ptr(self) == self.ptr
CStrBuf_owns_buffer(self) == self.dtor # "None"
CStrBuf_is_empty(m, self) == Load(m, self.ptr) = 0
CStrBuf_to_vec(m, self) == MemRead(m, self.ptr, strlen(m, self.ptr))
CStrBuf_iter(self) == [ptr |-> self.ptr]

\* ---------------------------------------------------- BorrowedCString
BorrowedCString_wrap(m, ptr) ==
    IF ptr = NULL THEN Panic(<<>>)
    ELSE Ok([ptr |-> ptr, len |-> strlen(m, ptr)], strlen_reads(m, ptr))

CStrBuf_borrow_with_len(m, self) == BorrowedCString_wrap(m, self.ptr).val

BorrowedCString_as_ptr(self) == self.ptr
BorrowedCString_as_bytes(m, self) == MemRead(m, self.ptr, self.len + 1)
BorrowedCString_as_bytes_no_nul(m, self) == MemRead(m, self.ptr, self.len)
BorrowedCString_len(self) == self.len
BorrowedCString_is_empty(self) == self.len = 0
BorrowedCString_iter(self) == [ptr |-> self.ptr]

\* A view that frees what it points to when it goes away.
BorrowedCString_drop_free(w, self, id) == Invoke(w, "libc_free", self.ptr, id)

\* A view goes out of scope: BorrowedCString has no Drop and no field that
\* has one.
BorrowedCString_drop(w, self, id) == w

\* ------------------------------------------------- CChars (iterator)
\* Option<c_char>: None is the empty sequence, Some(ch) is <<ch>>.
None == <<>>
Some(ch) == <<ch>>

\* A next() that steps over the terminator as well.
CChars_next_past(m, self) ==
    LET ch == Load(m, self.ptr)
    IN  [val |-> IF ch = 0 THEN None ELSE Some(ch),
         self |-> [self EXCEPT !.ptr = @ + 1]]

\* Iterator::next for CChars: the value returned and the iterator after it.
CChars_next(m, self) ==
    LET ch == Load(m, self.ptr)
    IN  IF ch = 0 THEN [val |-> None, self |-> self]
        ELSE [val |-> Some(ch), self |-> [self EXCEPT !.ptr = @ + 1]]

\* A remaining_c_str() that counts the terminator into the length.
CChars_remaining_c_str_nul(m, self) ==
    LET r == BorrowedCString_wrap(m, self.ptr)
    IN  Ok([r.val EXCEPT !.len = @ + 1], r.reads)

CChars_remaining_c_str(m, self) == BorrowedCString_wrap(m, self.ptr)

\* ------------------------------------------------------------ CString
\* A constructor body without the terminator assertion.
CString_new_internal_no_assert(m, ptr, len, maybe_dtor) ==
    Ok([buf |-> CStrBuf_new_internal(ptr, maybe_dtor), len |-> len], <<ptr + len>>)

CString_new_internal(m, ptr, len, maybe_dtor) ==
    IF Load(m, ptr + len) = NUL
    THEN Ok([buf |-> CStrBuf_new_internal(ptr, maybe_dtor), len |-> len],
            <<ptr + len>>)
    ELSE Panic(<<ptr + len>>)

\* A constructor that looks at the terminator before it looks at ptr.
CString_new_unowned_late(m, ptr, len) ==
    LET r == CString_new_internal(m, ptr, len, "None")
    IN  IF ptr = NULL THEN Panic(r.reads) ELSE r

CString_new_unowned(m, ptr, len) ==
    IF ptr = NULL THEN Panic(<<>>)
    ELSE CString_new_internal(m, ptr, len, "None")

CString_new_with_dtor(m, ptr, len, dtor) ==
    IF ptr = NULL THEN Panic(<<>>)
    ELSE CString_new_internal(m, ptr, len, dtor)

CString_new_libc(m, ptr, len) == CString_new_with_dtor(m, ptr, len, "libc_free")

CString_borrow(self) == [ptr |-> self.buf.ptr, len |-> self.len]
CString_as_ptr(self) == CStrBuf_as_ptr(self.buf)
CString_as_bytes(m, self) == MemRead(m, self.buf.ptr, self.len + 1)
CString_as_bytes_no_nul(m, self) == MemRead(m, self.buf.ptr, self.len)
CString_len(self) == self.len
CString_owns_buffer(self) == CStrBuf_owns_buffer(self.buf)
CString_unwrap(w, self, id) == CStrBuf_unwrap(w, self.buf, id)

\* --------------------------------------------------------- conversions
\* A copy that leaves the byte after the copied ones unwritten.
buf_dup_no_nul(w, src) ==
    CHOOSE d \in
        {LET len  == Len(s)
             copy == a.ptr
             m1   == [x \in DOMAIN a.w.mem |-> IF x \in copy..(copy + len - 1)
                                      THEN s[x - copy + 1] ELSE a.w.mem[x]]
         IN  [w |-> [a.w EXCEPT !.mem = m1], val |-> CStrBuf_new_libc(copy).val]
         : a \in {libc_malloc(w, Len(src) + 1)}, s \in {src}} : TRUE

\* buf_dup: malloc len+1 bytes, copy the len source bytes, write the
\* terminator, hand the copy to CStrBuf::new_libc.  src holds the len
\* bytes at the source pointer.
buf_dup(w, src) ==
    CHOOSE d \in
        {LET len  == Len(s)
             copy == a.ptr
             m1   == [x \in DOMAIN a.w.mem |-> IF x \in copy..(copy + len - 1)
                                      THEN s[x - copy + 1] ELSE a.w.mem[x]]
             m2   == [m1 EXCEPT ![copy + len] = 0]
         IN  [w |-> [a.w EXCEPT !.mem = m2], val |-> CStrBuf_new_libc(copy).val]
         : a \in {libc_malloc(w, Len(src) + 1)}, s \in {src}} : TRUE

\* A copy whose length is what strlen finds in it.
str_dup_strlen(w, src) ==
    CHOOSE r \in
        {[ok |-> TRUE, val |-> [buf |-> d.val, len |-> strlen(d.w.mem, d.val.ptr)],
          reads |-> <<>>, w |-> d.w] : d \in {buf_dup(w, src)}} : TRUE

str_dup(w, src) ==
    CHOOSE r \in
        {[ok |-> TRUE, val |-> [buf |-> d.val, len |-> Len(s)],
          reads |-> <<>>, w |-> d.w] : d \in {buf_dup(w, src)}, s \in {src}} : TRUE

\* impl ToCStr for [u8]
slice_to_c_str_unchecked(w, v) == str_dup(w, v)

\* A checked conversion that does not look for a zero byte.
slice_to_c_str_no_check(w, v) == slice_to_c_str_unchecked(w, v)

slice_to_c_str(w, v) ==
    IF contains(v, NUL)
    THEN [ok |-> FALSE, val |-> "panic", reads |-> <<>>, w |-> w]
    ELSE slice_to_c_str_unchecked(w, v)

\* impl ToCStr for CStrBuf
CStrBuf_to_c_str_unchecked(w, self) ==
    str_dup(w, MemRead(w.mem, self.ptr, strlen(w.mem, self.ptr)))

CStrBuf_to_c_str(w, self) == CStrBuf_to_c_str_unchecked(w, self)

\* impl ToCStr for CString
CString_to_c_str_unchecked(w, self) ==
    str_dup(w, MemRead(w.mem, self.buf.ptr, self.len))

\* A conversion that shares the buffer of self instead of copying it.
CString_to_c_str_alias(w, self) ==
    [ok |-> TRUE,
     val |-> [buf |-> CStrBuf_new_libc(self.buf.ptr).val, len |-> self.len],
     reads |-> <<>>, w |-> w]

CString_to_c_str(w, self) == CString_to_c_str_unchecked(w, self)

\* impl ToCStr for BorrowedCString
BorrowedCString_to_c_str_unchecked(w, self) ==
    str_dup(w, MemRead(w.mem, self.ptr, self.len))

BorrowedCString_to_c_str(w, self) == BorrowedCString_to_c_str_unchecked(w, self)

\* ---------------------------------------------------------- the state
Slots == 1..MaxObjs

Empty == [kind |-> "empty"]

World == [mem |-> mem, blocks |-> blocks, calls |-> calls]

AllEmpty == \A i \in Slots : objs[i].kind = "empty"
\* The next variable the scope declares: each holds one value in the scope.
HasFree == \E i \in Slots : born[i].fate = "none"
FreeSlot == CHOOSE i \in Slots :
                born[i].fate = "none" /\ \A j \in 1..(i - 1) : born[j].fate # "none"

Ret(op, ptr, len, v, r, slot) ==
    [op |-> op, ptr |-> ptr, len |-> len, v |-> v, ok |-> r.ok,
     val |-> r.val, reads |-> r.reads, slot |-> slot]

\* ctor: the type whose constructor made the value ("dup" for buf_dup);
\* ptr, fn: the address and release closure it was given; fate: held,
\* unwrapped or dropped; got: the address unwrap() returned.
NoLife == [ctor |-> "none", ptr |-> NULL, fn |-> "None", fate |-> "none", got |-> NULL]
Born(ctor, p, dtor) ==
    [ctor |-> ctor, ptr |-> p, fn |-> dtor, fate |-> "held", got |-> NULL]

\* pc: idle, in_f (the visitor runs), after_f, returned or unwound;
\* entry, with_len, v, checked: the method called and its receiver;
\* path: where the terminated copy lives (stack, heap, none);
\* args: what the closure is called with; visits, seen, fres: how often the
\* visitor ran, the bytes it found at args[1], and whether it returned.
NoFrame ==
    [pc |-> "idle", entry |-> "[u8]", with_len |-> FALSE, v |-> <<>>,
     checked |-> FALSE, path |-> "none", args |-> <<NULL, 0>>, visits |-> 0,
     seen |-> <<>>, fres |-> "none", writes |-> <<>>]

\* The foreign buffer holds MaxLen bytes and a terminator: either no other
\* zero byte, or one more at its second byte.
StaticStrings == {Pattern(MaxLen, z) : z \in {0, 2}}

Init ==
    /\ \E s \in StaticStrings :
          mem = [a \in Addrs |-> IF a <= MaxLen THEN s[a]
                                 ELSE IF a = StaticHi THEN NUL ELSE Uninit]
    /\ blocks = {}
    /\ objs = [i \in Slots |-> Empty]
    /\ calls = [i \in Slots |-> <<>>]
    /\ born = [i \in Slots |-> NoLife]
    /\ ret = Ret(<<"init">>, NULL, 0, <<>>, Ok(0, <<>>), 0)
    /\ frame = NoFrame

ObjPtr(o) == IF o.kind = "CStrBuf" THEN o.val.ptr ELSE o.val.buf.ptr
ObjBuf(o) == IF o.kind = "CStrBuf" THEN o.val ELSE o.val.buf

InBlock(blk, p) == p \in blk.base..(blk.base + blk.size - 1)

\* Heap blocks no buffer value points into: what unwrap() left to the caller.
UnownedBlocks ==
    {blk \in blocks :
        \A i \in Slots : objs[i].kind # "empty" => ~InBlock(blk, ObjPtr(objs[i]))}

StaticPtrs == StaticLo..StaticHi

\* The pointers a caller passes to a constructor: null; an address of the
\* foreign buffer, with no release owed or with a closure of the caller's;
\* the base of a heap block that unwrap() left to the caller, with free()
\* as the release.
AdoptPtrs(dtor) ==
    {NULL} \cup (IF dtor = "libc_free" THEN {blk.base : blk \in UnownedBlocks}
                ELSE StaticPtrs)

\* The declared lengths that keep ptr + len inside the buffer ptr points to.
DeclLens(p) ==
    IF p = NULL THEN 0..MaxLen
    ELSE IF p \in StaticPtrs THEN 0..(StaticHi - p)
    ELSE LET blk == CHOOSE b \in blocks : InBlock(b, p)
         IN  0..(blk.base + blk.size - 1 - p)

Dtors == {"None", "libc_free", "custom"}

\* A run is one scope of the program.  It starts with every variable unused
\* and a clean heap; after it, the caller may adopt the heap block that
\* unwrap() left it with, which starts the next scope; the block it adopts
\* is the first of the heap, any other it can only free.
FreshScope(p) ==
    /\ AllEmpty
    /\ \/ blocks = {} /\ \A i \in Slots : born[i].fate = "none"
       \/ blocks # {} /\ p = HeapLo /\ \A blk \in blocks : blk.base = p

\* A value constructed in the first variable of a fresh scope.
Fresh(ctor, kind, val, p, dtor) ==
    /\ objs' = [i \in Slots |-> IF i = 1 THEN [kind |-> kind, val |-> val] ELSE Empty]
    /\ born' = [i \in Slots |-> IF i = 1 THEN Born(ctor, p, dtor) ELSE NoLife]
    /\ calls' = [i \in Slots |-> <<>>]

\* An unwinding that drops a CStrBuf already built around ptr and dtor.
new_unwind_built(w, ptr, dtor, id) ==
    CStrBuf_drop(w, CStrBuf_new_internal(ptr, dtor), id)

\* The unwinding of a constructor whose assert! failed: the assertions come
\* before CStrBuf::new_internal, so there is no CStrBuf to drop, and the
\* closure argument is dropped without being called.
new_unwind(w, ptr, dtor, id) == w

\* ------------------------------------------------------------ actions
\* CStrBuf::new_unowned / new_libc / new_with_dtor
NewCStrBuf(dtor, p) ==
    /\ UNCHANGED frame
    /\ FreshScope(p)
    /\ p \in AdoptPtrs(dtor)
    /\ \E r \in {CASE dtor = "None" -> CStrBuf_new_unowned(p)
                    [] dtor = "libc_free" -> CStrBuf_new_libc(p)
                    [] OTHER -> CStrBuf_new_with_dtor(p, dtor)} :
           /\ ret' = Ret(<<"CStrBuf::new", dtor>>, p, 0, <<>>, r, IF r.ok THEN 1 ELSE 0)
           /\ IF r.ok
              THEN Fresh("CStrBuf", "CStrBuf", r.val, p, dtor) /\ UNCHANGED <<mem, blocks>>
              ELSE \E w \in {new_unwind(World, p, dtor, 1)} :
                       /\ mem' = w.mem /\ blocks' = w.blocks /\ calls' = w.calls
                       /\ UNCHANGED <<objs, born>>

\* CString::new_unowned / new_libc / new_with_dtor
NewCString(dtor, p, len) ==
    /\ UNCHANGED frame
    /\ FreshScope(p)
    /\ p \in AdoptPtrs(dtor)
    /\ len \in DeclLens(p)
    /\ \E r \in {CASE dtor = "None" -> CString_new_unowned(mem, p, len)
                    [] dtor = "libc_free" -> CString_new_libc(mem, p, len)
                    [] OTHER -> CString_new_with_dtor(mem, p, len, dtor)} :
           /\ ret' = Ret(<<"CString::new", dtor>>, p, len, <<>>, r, IF r.ok THEN 1 ELSE 0)
           /\ IF r.ok
              THEN Fresh("CString", "CString", r.val, p, dtor) /\ UNCHANGED <<mem, blocks>>
              ELSE \E w \in {new_unwind(World, p, dtor, 1)} :
                       /\ mem' = w.mem /\ blocks' = w.blocks /\ calls' = w.calls
                       /\ UNCHANGED <<objs, born>>

\* BorrowedCString::wrap on a raw pointer
Wrap(p) ==
    /\ UNCHANGED frame
    /\ FreshScope(NULL)
    /\ p \in {NULL} \cup StaticPtrs
    /\ ret' = Ret(<<"BorrowedCString::wrap">>, p, 0, <<>>,
                  BorrowedCString_wrap(mem, p), 0)
    /\ UNCHANGED <<mem, blocks, objs, calls, born>>

\* The read-only methods of CStrBuf, called one after the other:
\* as_ptr, is_empty, to_vec, iter, borrow_with_len.
ReadCStrBuf(i) ==
    /\ UNCHANGED frame
    /\ objs[i].kind = "CStrBuf"
    /\ \E self \in {objs[i].val} :
       \E val \in {[as_ptr |-> CStrBuf_as_ptr(self),
                    is_empty |-> CStrBuf_is_empty(mem, self),
                    to_vec |-> CStrBuf_to_vec(mem, self),
                    iter |-> CStrBuf_iter(self),
                    borrow_with_len |-> CStrBuf_borrow_with_len(mem, self)]} :
           ret' = Ret(<<"CStrBuf", "read">>, self.ptr, 0, <<>>, Ok(val, <<>>), i)
    /\ UNCHANGED <<mem, blocks, objs, calls, born>>

SetWorld(w) ==
    /\ mem' = w.mem
    /\ blocks' = w.blocks
    /\ calls' = w.calls

\* A view of the value in variable i is taken (borrow_with_len() of a
\* CStrBuf, borrow() of a CString), read through all its methods, turned
\* into an iterator and back into a view by remaining_c_str(), and both
\* views go out of scope.
Borrow(i) ==
    /\ UNCHANGED frame
    /\ objs[i].kind # "empty"
    /\ \E view \in {IF objs[i].kind = "CStrBuf"
                     THEN CStrBuf_borrow_with_len(mem, objs[i].val)
                     ELSE CString_borrow(objs[i].val)} :
       \E rest \in {CChars_remaining_c_str(mem, BorrowedCString_iter(view)).val} :
       \E w \in {BorrowedCString_drop(BorrowedCString_drop(World, rest, i), view, i)} :
           /\ SetWorld(w)
           /\ ret' = Ret(<<objs[i].kind, "borrow">>, ObjPtr(objs[i]), view.len, <<>>,
                         Ok([view |-> view,
                             as_ptr |-> BorrowedCString_as_ptr(view),
                             as_bytes |-> BorrowedCString_as_bytes(mem, view),
                             as_bytes_no_nul |-> BorrowedCString_as_bytes_no_nul(mem, view),
                             len |-> BorrowedCString_len(view),
                             is_empty |-> BorrowedCString_is_empty(view),
                             remaining_c_str |-> rest], <<>>), i)
    /\ UNCHANGED <<objs, born>>

\* CStrBuf::into_c_str: the CString replaces the CStrBuf it consumed.
IntoCStr(i) ==
    /\ UNCHANGED frame
    /\ objs[i].kind = "CStrBuf"
    /\ \E r \in {CStrBuf_into_c_str(World, objs[i].val, i)} :
           /\ objs' = [objs EXCEPT ![i] = [kind |-> "CString", val |-> r.val]]
           /\ SetWorld(r.w)
           /\ ret' = Ret(<<"CStrBuf", "into_c_str">>, objs[i].val.ptr, 0, <<>>,
                         Ok(r.val, <<>>), i)
    /\ UNCHANGED born

\* CStrBuf::unwrap / CString::unwrap: the value is consumed, the caller
\* keeps the raw pointer (it holds one such pointer at a time).
Unwrap(i) ==
    /\ UNCHANGED frame
    /\ objs[i].kind # "empty"
    /\ UnownedBlocks = {}
    /\ \E r \in {IF objs[i].kind = "CStrBuf"
                  THEN CStrBuf_unwrap(World, objs[i].val, i)
                  ELSE CString_unwrap(World, objs[i].val, i)} :
           /\ SetWorld(r.w)
           /\ born' = [born EXCEPT ![i].fate = "unwrapped", ![i].got = r.val]
           /\ ret' = Ret(<<objs[i].kind, "unwrap">>, ObjPtr(objs[i]), 0, <<>>,
                         Ok(r.val, <<>>), i)
    /\ objs' = [objs EXCEPT ![i] = Empty]

\* The end of the scope that owns the value: its CStrBuf is dropped.
DropObj(i) ==
    /\ UNCHANGED frame
    /\ objs[i].kind # "empty"
    /\ \E w \in {CStrBuf_drop(World, ObjBuf(objs[i]), i)} : SetWorld(w)
    /\ objs' = [objs EXCEPT ![i] = Empty]
    /\ born' = [born EXCEPT ![i].fate = "dropped"]
    /\ ret' = Ret(<<objs[i].kind, "drop">>, ObjPtr(objs[i]), 0, <<>>, Ok(0, <<>>), i)

\* The caller frees a pointer that unwrap() left it with.
CallerFree(p) ==
    /\ UNCHANGED frame
    /\ p \in {blk.base : blk \in UnownedBlocks}
    /\ \E w \in {libc_free(World, p)} : SetWorld(w)
    /\ ret' = Ret(<<"libc::free">>, p, 0, <<>>, Ok(0, <<>>), 0)
    /\ UNCHANGED <<objs, born>>

\* [u8]::to_c_str (checked) and to_c_str_unchecked; str and String
\* forward to the same code through as_bytes().
SliceToCStr(v, checked) ==
    /\ UNCHANGED frame
    /\ FreshScope(NULL)
    /\ CanMalloc(World, Len(v) + 1)
    /\ \E r \in {IF checked THEN slice_to_c_str(World, v)
                  ELSE slice_to_c_str_unchecked(World, v)} :
           /\ mem' = r.w.mem
           /\ blocks' = r.w.blocks
           /\ ret' = Ret(<<"[u8]", IF checked THEN "to_c_str" ELSE "to_c_str_unchecked">>,
                         NULL, Len(v), v, r, IF r.ok THEN 1 ELSE 0)
           /\ IF r.ok THEN Fresh("dup", "CString", r.val, r.val.buf.ptr, r.val.buf.dtor)
              ELSE UNCHANGED <<objs, born, calls>>

\* to_c_str / to_c_str_unchecked of a CStrBuf, a CString, or (view = TRUE)
\* of the BorrowedCString that borrow_with_len() / borrow() gives of it.
\* (A copy is copied again by its own to_c_str() only.)
ObjToCStr(i, view, checked) ==
    /\ UNCHANGED frame
    /\ objs[i].kind # "empty"
    /\ HasFree
    /\ born[i].ctor = "dup" => checked /\ ~view
    /\ \E o \in {objs[i]} :
       \E b \in {IF o.kind = "CStrBuf" THEN CStrBuf_borrow_with_len(mem, o.val)
                 ELSE CString_borrow(o.val)} :
       LET kind == IF view THEN "BorrowedCString" ELSE o.kind
       IN  /\ CanMalloc(World, b.len + 1)
           /\ \E r \in {CASE view /\ checked -> BorrowedCString_to_c_str(World, b)
                         [] view /\ ~checked -> BorrowedCString_to_c_str_unchecked(World, b)
                         [] ~view /\ o.kind = "CStrBuf" /\ checked ->
                                CStrBuf_to_c_str(World, o.val)
                         [] ~view /\ o.kind = "CStrBuf" /\ ~checked ->
                                CStrBuf_to_c_str_unchecked(World, o.val)
                         [] ~view /\ o.kind = "CString" /\ checked ->
                                CString_to_c_str(World, o.val)
                         [] OTHER -> CString_to_c_str_unchecked(World, o.val)} :
                  /\ mem' = r.w.mem
                  /\ blocks' = r.w.blocks
                  /\ ret' = Ret(<<kind, IF checked THEN "to_c_str" ELSE "to_c_str_unchecked">>,
                                b.ptr, b.len, MemRead(mem, b.ptr, b.len), r,
                                IF r.ok THEN FreeSlot ELSE 0)
                  /\ IF r.ok
                     THEN /\ objs' = [objs EXCEPT ![FreeSlot] =
                                         [kind |-> "CString", val |-> r.val]]
                          /\ born' = [born EXCEPT ![FreeSlot] =
                                         Born("dup", r.val.buf.ptr, r.val.buf.dtor)]
                          /\ calls' = [r.w.calls EXCEPT ![FreeSlot] = <<>>]
                     ELSE UNCHANGED <<objs, born, calls>>

Next ==
    \/ \E d \in Dtors, p \in {NULL} \cup Addrs : NewCStrBuf(d, p)
    \/ \E d \in Dtors, p \in {NULL} \cup Addrs, len \in 0..MaxLen : NewCString(d, p, len)
    \/ \E p \in {NULL} \cup Addrs : Wrap(p)
    \/ \E i \in Slots : ReadCStrBuf(i)
    \/ \E i \in Slots : Borrow(i)
    \/ \E i \in Slots : IntoCStr(i)
    \/ \E i \in Slots : Unwrap(i)
    \/ \E i \in Slots : DropObj(i)
    \/ \E p \in Addrs : CallerFree(p)
    \/ \E v \in ByteSeqs, c \in BOOLEAN : SliceToCStr(v, c)
    \/ \E i \in Slots, view \in BOOLEAN, c \in BOOLEAN : ObjToCStr(i, view, c)

Spec == Init /\ [][Next]_vars

\* ------------------------------------------------------ scoped access
\* The length of the stack allocated buffer of with_c_str_len.
BUF_LEN == 128

\* The stack array buf of with_c_str_len lives below the null address; the
\* heap is large enough for the longest slice.
StackLo == NULL - BUF_LEN
StackAddrs == StackLo..(NULL - 1)
ScopedHeapHi == HeapLo + BUF_LEN + MaxLen
ScopedAddrs == StackAddrs \cup (StaticLo..ScopedHeapHi)

\* The lengths around the threshold, and the short ones.
ScopedLens == (0..MaxLen) \cup ((BUF_LEN - 1)..(BUF_LEN + MaxLen))
ScopedSeqs == {Pattern(len, z) : len \in ScopedLens, z \in {0, 2, BUF_LEN}}

\* A stack path that leaves buf[len] unwritten.
stack_buf_no_nul(m, v) ==
    [a \in DOMAIN m |->
        IF a \in StackAddrs
        THEN IF a - StackLo + 1 <= Len(v) THEN v[a - StackLo + 1] ELSE Uninit
        ELSE m[a]]

\* Stack-path writes that put the terminator one index too far.
stack_buf_writes_nul_far(v) ==
    [k \in 1..(Len(v) + 1) |->
        IF k <= Len(v) THEN [idx |-> k - 1, byte |-> v[k]]
        ELSE [idx |-> Len(v) + 1, byte |-> NUL]]

\* The writes of the stack path into buf, in order: copy_memory(&mut buf, v)
\* writes v[i] at index i, then buf[len] = 0.
stack_buf_writes(v) ==
    [k \in 1..(Len(v) + 1) |->
        IF k <= Len(v) THEN [idx |-> k - 1, byte |-> v[k]]
        ELSE [idx |-> Len(v), byte |-> NUL]]

\* let mut buf = mem::uninitialized(); copy_memory(&mut buf, v); buf[len] = 0:
\* the array holds what was written into it, and is uninitialized elsewhere.
stack_buf(m, v) ==
    CHOOSE n \in
        {[a \in DOMAIN m |->
             IF a \in StackAddrs
             THEN IF \E k \in DOMAIN ws : ws[k].idx = a - StackLo
                  THEN ws[CHOOSE k \in DOMAIN ws : ws[k].idx = a - StackLo].byte
                  ELSE Uninit
             ELSE m[a]] : ws \in {stack_buf_writes(v)}} : TRUE

\* A stack path that copies without looking for a zero byte.
with_c_str_len_stack_unchecked(w, v, checked) ==
    LET len == Len(v)
    IN  IF len < BUF_LEN
        THEN [ok |-> TRUE, path |-> "stack",
              w |-> [w EXCEPT !.mem = stack_buf(w.mem, v)],
              args |-> <<StackLo, len>>]
        ELSE CHOOSE e \in
                 {IF r.ok
                  THEN [ok |-> TRUE, path |-> "heap", w |-> r.w, c_str |-> r.val,
                        args |-> <<CString_as_ptr(r.val), Len(x)>>]
                  ELSE [ok |-> FALSE, path |-> "none", w |-> w, args |-> <<NULL, 0>>]
                  : r \in {IF checked THEN slice_to_c_str(w, v)
                                      ELSE slice_to_c_str_unchecked(w, v)},
                    x \in {v}} : TRUE

\* A threshold that lets a slice of BUF_LEN bytes take the stack path.
with_c_str_len_le(w, v, checked) ==
    LET len == Len(v)
    IN  IF len <= BUF_LEN
        THEN IF checked /\ contains(v, NUL)
             THEN [ok |-> FALSE, path |-> "none", w |-> w, args |-> <<NULL, 0>>]
             ELSE [ok |-> TRUE, path |-> "stack",
                   w |-> [w EXCEPT !.mem = stack_buf(w.mem, v)],
                   args |-> <<StackLo, len>>]
        ELSE CHOOSE e \in
                 {IF r.ok
                  THEN [ok |-> TRUE, path |-> "heap", w |-> r.w, c_str |-> r.val,
                        args |-> <<CString_as_ptr(r.val), Len(x)>>]
                  ELSE [ok |-> FALSE, path |-> "none", w |-> w, args |-> <<NULL, 0>>]
                  : r \in {IF checked THEN slice_to_c_str(w, v)
                                      ELSE slice_to_c_str_unchecked(w, v)},
                    x \in {v}} : TRUE

\* with_c_str_len(v, checked, f) up to the call of f: the path taken, the
\* arguments of f, and the local c_str of the heap path.
with_c_str_len(w, v, checked) ==
    LET len == Len(v)
    IN  IF len < BUF_LEN
        THEN IF checked /\ contains(v, NUL)
             THEN [ok |-> FALSE, path |-> "none", w |-> w, args |-> <<NULL, 0>>]
             ELSE [ok |-> TRUE, path |-> "stack",
                   w |-> [w EXCEPT !.mem = stack_buf(w.mem, v)],
                   args |-> <<StackLo, len>>]
        ELSE CHOOSE e \in
                 {IF r.ok
                  THEN [ok |-> TRUE, path |-> "heap", w |-> r.w, c_str |-> r.val,
                        args |-> <<CString_as_ptr(r.val), Len(x)>>]
                  ELSE [ok |-> FALSE, path |-> "none", w |-> w, args |-> <<NULL, 0>>]
                  : r \in {IF checked THEN slice_to_c_str(w, v)
                                      ELSE slice_to_c_str_unchecked(w, v)},
                    x \in {v}} : TRUE

\* The provided methods of trait ToCStr, for a receiver whose to_c_str is
\* that of its bytes v: let c_str = self.to_c_str(); then
\* f(c_str.as_ptr(), c_str.len()).
ToCStr_with_c_str_len(w, v, checked) ==
    CHOOSE e \in
        {IF r.ok
         THEN [ok |-> TRUE, path |-> "heap", w |-> r.w, c_str |-> r.val,
               args |-> <<CString_as_ptr(r.val), CString_len(r.val)>>]
         ELSE [ok |-> FALSE, path |-> "none", w |-> w, args |-> <<NULL, 0>>]
         : r \in {IF checked THEN slice_to_c_str(w, v)
                             ELSE slice_to_c_str_unchecked(w, v)}} : TRUE

\* An exit that forgets the local c_str.
with_c_str_len_exit_forget(w, path, c_str, id) ==
    IF path = "stack"
    THEN [w EXCEPT !.mem = [a \in DOMAIN w.mem |->
                               IF a \in StackAddrs THEN Uninit ELSE w.mem[a]]]
    ELSE w

\* The exit of with_c_str_len, by return or by unwinding: the local c_str
\* of the heap path is dropped, the stack array of the stack path is gone.
with_c_str_len_exit(w, path, c_str, id) ==
    IF path = "stack"
    THEN [w EXCEPT !.mem = [a \in DOMAIN w.mem |->
                               IF a \in StackAddrs THEN Uninit ELSE w.mem[a]]]
    ELSE CStrBuf_drop(w, c_str.val.buf, id)

\* x.with_c_str(f), x.with_c_str_len(f) or an unchecked variant is called:
\* the code runs up to the call of the visitor f, or panics before it.
\* (A call leaves the heap and the stack as it found them, so a run makes
\* one call.)
Call(entry, v, checked, with_len) ==
    /\ frame.pc = "idle"
    /\ \E e \in {IF entry = "[u8]" THEN with_c_str_len(World, v, checked)
                  ELSE ToCStr_with_c_str_len(World, v, checked)} :
           /\ mem' = e.w.mem
           /\ blocks' = e.w.blocks
           /\ calls' = [i \in Slots |-> <<>>]
           /\ objs' = [i \in Slots |->
                         IF i = 1 /\ e.path = "heap"
                         THEN [kind |-> "CString", val |-> e.c_str] ELSE Empty]
           /\ born' = [i \in Slots |->
                         IF i = 1 /\ e.path = "heap"
                         THEN Born("dup", e.c_str.buf.ptr, e.c_str.buf.dtor)
                         ELSE NoLife]
           /\ frame' = [pc |-> IF e.ok THEN "in_f" ELSE "unwound",
                        entry |-> entry, with_len |-> with_len, v |-> v,
                        checked |-> checked, path |-> e.path, args |-> e.args,
                        visits |-> 0, seen |-> <<>>, fres |-> "none",
                        writes |-> IF e.path = "stack" THEN stack_buf_writes(v)
                                   ELSE <<>>]
    /\ UNCHANGED ret

\* The visitor runs: it looks at the string it was given, then returns or
\* panics.
Visit(fres) ==
    /\ frame.pc = "in_f"
    /\ frame' = [frame EXCEPT !.pc = "after_f", !.visits = @ + 1,
                              !.seen = MemRead(mem, frame.args[1], frame.args[2] + 1),
                              !.fres = fres]
    /\ UNCHANGED <<mem, blocks, objs, calls, born, ret>>

\* The call returns the visitor's result, or unwinds with its panic.
Exit ==
    /\ frame.pc = "after_f"
    /\ \E w \in {with_c_str_len_exit(World, frame.path, objs[1], 1)} : SetWorld(w)
    /\ objs' = [i \in Slots |-> Empty]
    /\ born' = [i \in Slots |->
                  IF born[i].fate = "held" THEN [born[i] EXCEPT !.fate = "dropped"]
                  ELSE born[i]]
    /\ frame' = [frame EXCEPT !.pc = IF frame.fres = "return" THEN "returned"
                                     ELSE "unwound"]
    /\ UNCHANGED ret

InitScoped ==
    /\ \E s \in StaticStrings :
          mem = [a \in ScopedAddrs |->
                    IF a \in StaticLo..MaxLen THEN s[a]
                    ELSE IF a = StaticHi THEN NUL ELSE Uninit]
    /\ blocks = {}
    /\ objs = [i \in Slots |-> Empty]
    /\ calls = [i \in Slots |-> <<>>]
    /\ born = [i \in Slots |-> NoLife]
    /\ ret = Ret(<<"init">>, NULL, 0, <<>>, Ok(0, <<>>), 0)
    /\ frame = NoFrame

NextScoped ==
    \/ \E entry \in {"[u8]", "ToCStr"}, v \in ScopedSeqs, c \in BOOLEAN, l \in BOOLEAN :
           Call(entry, v, c, l)
    \/ \E fres \in {"return", "panic"} : Visit(fres)
    \/ Exit

SpecScoped == InitScoped /\ [][NextScoped]_vars

\* -------------------------------------------------------- multistring
\* The segments a multistring is made of: non-empty, without a zero byte.
Segs == {Pattern(len, 0) : len \in 1..MaxLen}

RECURSIVE SeqsOf(_, _)
SeqsOf(S, n) ==
    IF n = 0 THEN {<<>>}
    ELSE {<<>>} \cup {<<x>> \o t : x \in S, t \in SeqsOf(S, n - 1)}

\* The bytes of a multistring: each segment with its terminator, then the
\* empty segment.
RECURSIVE Flatten(_)
Flatten(segs) ==
    IF segs = <<>> THEN <<NUL>>
    ELSE Head(segs) \o <<NUL>> \o Flatten(Tail(segs))

\* The address at which segment i of a multistring at buf starts.
RECURSIVE SegStart(_, _, _)
SegStart(buf, segs, i) ==
    IF i = 1 THEN buf ELSE SegStart(buf, segs, i - 1) + Len(segs[i - 1]) + 1

\* The bytes of the buffer the caller hands over: the multistring with its
\* closing empty segment, or the segments alone.
MultiBytes(segs, closed) ==
    IF closed THEN Flatten(segs)
    ELSE SubSeq(Flatten(segs), 1, Len(Flatten(segs)) - 1)

\* The mapped addresses: room for the longest buffer, and one address more,
\* which is never the buffer's.
MultiAddrs == StaticLo..(StaticLo + MaxSegs * (MaxLen + 1) + 1)

\* The memory of a walk: the buffer at StaticLo; after it, memory that is
\* not the buffer's, never written, with a zero byte at its end.
MultiMem(segs, closed) ==
    [a \in MultiAddrs |->
        IF a - StaticLo + 1 <= Len(MultiBytes(segs, closed))
        THEN MultiBytes(segs, closed)[a - StaticLo + 1]
        ELSE IF a = StaticLo + MaxSegs * (MaxLen + 1) + 1 THEN NUL
        ELSE Uninit]

\* match count { Some(limit) => (true, limit), None => (false, 0) }
Counts == {[limited_count |-> FALSE, limit |-> 0]}
              \cup {[limited_count |-> TRUE, limit |-> l] : l \in 0..(MaxSegs + 1)}

\* A loop test that lets the walk visit one segment more than the limit.
from_c_multistring_test_le(m, fr) ==
    IF ~(~fr.limited_count \/ fr.ctr <= fr.limit)
    THEN [go |-> FALSE, reads |-> <<>>]
    ELSE [go |-> Load(m, fr.curr_ptr) # 0, reads |-> <<fr.curr_ptr>>]

\* A loop test that reads the byte at the cursor before it tests the limit.
from_c_multistring_test_read_first(m, fr) ==
    [go |-> Load(m, fr.curr_ptr) # 0 /\ (~fr.limited_count \/ fr.ctr < fr.limit),
     reads |-> <<fr.curr_ptr>>]

\* while (!limited_count || ctr < limit) && *curr_ptr != 0: whether the loop
\* goes on, and the address the test read.
from_c_multistring_test(m, fr) ==
    IF ~(~fr.limited_count \/ fr.ctr < fr.limit)
    THEN [go |-> FALSE, reads |-> <<>>]
    ELSE [go |-> Load(m, fr.curr_ptr) # 0, reads |-> <<fr.curr_ptr>>]

\* A loop body that gets the length from an owned copy of the segment.
from_c_multistring_body_copy(w, curr_ptr, id) ==
    LET r    == CStrBuf_to_c_str(w, CStrBuf_new_unowned(curr_ptr).val)
        cstr == r.val
    IN  [view |-> [ptr |-> curr_ptr, len |-> CString_len(cstr)],
         curr_ptr |-> curr_ptr + CString_len(cstr) + 1,
         reads |-> strlen_reads(w.mem, curr_ptr),
         w |-> CStrBuf_drop(r.w, cstr.buf, id)]

\* The loop body: cstr = CStrBuf::new_unowned(curr_ptr).into_c_str(); the
\* callback gets cstr.borrow(); curr_ptr moves past the terminator; cstr is
\* dropped at the end of the iteration.  The reads are those of the strlen
\* in into_c_str.
from_c_multistring_body(w, curr_ptr, id) ==
    LET r    == CStrBuf_into_c_str(w, CStrBuf_new_unowned(curr_ptr).val, id)
        cstr == r.val
    IN  [view |-> CString_borrow(cstr),
         curr_ptr |-> curr_ptr + CString_len(cstr) + 1,
         reads |-> strlen_reads(w.mem, curr_ptr),
         w |-> CStrBuf_drop(r.w, cstr.buf, id)]

\* from_c_multistring(buf, count, f) is called.  The function is unsafe: on
\* a buffer without the closing empty segment the caller gives a limit that
\* the segments of the buffer can meet.
MultiCall(count) ==
    /\ frame.pc = "idle"
    /\ frame.closed \/ (count.limited_count /\ count.limit <= Len(frame.segs))
    /\ frame' = [frame EXCEPT !.pc = "loop", !.limited_count = count.limited_count,
                              !.limit = count.limit]
    /\ UNCHANGED <<mem, blocks, objs, calls, born, ret>>

\* One turn of the loop: the test, and if it holds the body, in which the
\* callback f returns or panics.
MultiStep(fres) ==
    /\ frame.pc = "loop"
    /\ \E t \in {from_c_multistring_test(mem, frame)} :
           IF t.go
           THEN \E b \in {from_c_multistring_body(World, frame.curr_ptr, 1)} :
                    /\ SetWorld(b.w)
                    /\ frame' = [frame EXCEPT
                                    !.pc = IF fres = "return" THEN "loop" ELSE "unwound",
                                    !.curr_ptr = b.curr_ptr,
                                    !.ctr = @ + 1,
                                    !.reads = @ \o t.reads \o b.reads,
                                    !.seen = Append(@, [ptr |-> b.view.ptr,
                                                        len |-> b.view.len,
                                                        bytes |-> MemRead(mem, b.view.ptr,
                                                                          b.view.len)])]
                    /\ UNCHANGED ret
           ELSE /\ fres = "return"
                /\ frame' = [frame EXCEPT !.pc = "done", !.reads = @ \o t.reads]
                /\ ret' = Ret(<<"from_c_multistring">>, frame.buf, 0, <<>>,
                              Ok(frame.ctr, <<>>), 0)
                /\ UNCHANGED <<mem, blocks, calls>>
    /\ UNCHANGED <<objs, born>>

InitMulti ==
    /\ \E segs \in SeqsOf(Segs, MaxSegs), closed \in BOOLEAN :
          /\ mem = MultiMem(segs, closed)
          /\ frame = [pc |-> "idle", segs |-> segs, closed |-> closed, buf |-> StaticLo,
                      limited_count |-> FALSE, limit |-> 0, curr_ptr |-> StaticLo,
                      ctr |-> 0, reads |-> <<>>, seen |-> <<>>]
    /\ blocks = {}
    /\ objs = [i \in Slots |-> Empty]
    /\ calls = [i \in Slots |-> <<>>]
    /\ born = [i \in Slots |-> NoLife]
    /\ ret = Ret(<<"init">>, NULL, 0, <<>>, Ok(0, <<>>), 0)

NextMulti ==
    \/ \E count \in Counts : MultiCall(count)
    \/ \E fres \in {"return", "panic"} : MultiStep(fres)

SpecMulti == InitMulti /\ [][NextMulti]_vars

\* ------------------------------------------------------------- CChars
\* The calls of next() a run makes: enough to run past the end twice.
MaxNexts == MaxLen + 2

\* c_buf.iter() on a buffer at p.
IterNew(p) ==
    /\ frame.pc = "idle"
    /\ frame' = [pc |-> "iter", start |-> p,
                 it |-> CStrBuf_iter(CStrBuf_new_unowned(p).val),
                 k |-> 0, out |-> <<>>]
    /\ ret' = Ret(<<"CStrBuf", "iter">>, p, 0, <<>>, Ok(0, <<>>), 0)
    /\ UNCHANGED <<mem, blocks, objs, calls, born>>

\* iter.next()
IterNext ==
    /\ frame.pc = "iter"
    /\ frame.k < MaxNexts
    /\ \E r \in {CChars_next(mem, frame.it)} :
           /\ frame' = [frame EXCEPT !.it = r.self, !.k = @ + 1,
                                     !.out = Append(@, r.val)]
           /\ ret' = Ret(<<"CChars", "next">>, frame.it.ptr, 0, <<>>,
                         Ok(r.val, <<>>), 0)
    /\ UNCHANGED <<mem, blocks, objs, calls, born>>

\* iter.remaining_c_str(), on &self
IterRemaining ==
    /\ frame.pc = "iter"
    /\ ret' = Ret(<<"CChars", "remaining_c_str">>, frame.it.ptr, 0, <<>>,
                  CChars_remaining_c_str(mem, frame.it), 0)
    /\ UNCHANGED <<mem, blocks, objs, calls, born, frame>>

\* The foreign buffer holds MaxLen bytes and a terminator, with or without
\* a zero byte among them.
InitIter ==
    /\ \E z \in 0..MaxLen :
          mem = [a \in StaticPtrs |->
                    IF a = StaticHi THEN NUL ELSE Pattern(MaxLen, z)[a - StaticLo + 1]]
    /\ blocks = {}
    /\ objs = [i \in Slots |-> Empty]
    /\ calls = [i \in Slots |-> <<>>]
    /\ born = [i \in Slots |-> NoLife]
    /\ ret = Ret(<<"init">>, NULL, 0, <<>>, Ok(0, <<>>), 0)
    /\ frame = [pc |-> "idle"]

NextIter ==
    \/ \E p \in StaticPtrs : IterNew(p)
    \/ IterNext
    \/ IterRemaining

SpecIter == InitIter /\ [][NextIter]_vars

\* --------------------------------------------------------- comparison
\* Ord for [u8]: the first differing byte decides, then the length.
RECURSIVE slice_cmp(_, _)
slice_cmp(a, b) ==
    IF a = <<>> /\ b = <<>> THEN "Equal"
    ELSE IF a = <<>> THEN "Less"
    ELSE IF b = <<>> THEN "Greater"
    ELSE IF Head(a) < Head(b) THEN "Less"
    ELSE IF Head(a) > Head(b) THEN "Greater"
    ELSE slice_cmp(Tail(a), Tail(b))

\* impl PartialEq for CString
CString_eq(m, self, other) == CString_as_bytes(m, self) = CString_as_bytes(m, other)

\* A comparison that stops at the first zero byte, as strcmp does.
CString_cmp_strcmp(m, self, other) ==
    slice_cmp(MemRead(m, self.buf.ptr, strlen(m, self.buf.ptr)),
              MemRead(m, other.buf.ptr, strlen(m, other.buf.ptr)))

\* impl Ord for CString
CString_cmp(m, self, other) ==
    slice_cmp(CString_as_bytes(m, self), CString_as_bytes(m, other))

\* impl PartialOrd for CString
CString_partial_cmp(m, self, other) == Some(CString_cmp(m, self, other))

\* a == b, a.partial_cmp(&b), a.cmp(&b) on the two strings held.
Compare ==
    /\ objs[1].kind = "CString" /\ objs[2].kind = "CString"
    /\ ret.op = <<"init">>
    /\ \E a \in {objs[1].val}, b \in {objs[2].val} :
           ret' = Ret(<<"CString", "cmp">>, a.buf.ptr, a.len, <<>>,
                      Ok([eq |-> CString_eq(mem, a, b),
                          partial_cmp |-> CString_partial_cmp(mem, a, b),
                          cmp |-> CString_cmp(mem, a, b)], <<>>), 0)
    /\ UNCHANGED <<mem, blocks, objs, calls, born, frame>>

\* Two foreign buffers side by side, each wrapped by CString::new_unowned
\* with the length of its content, which may hold zero bytes.
InitCmp ==
    /\ \E a \in ByteSeqs, b \in ByteSeqs :
          /\ mem = [x \in StaticLo..(StaticHi + MaxLen + 1) |->
                       IF x <= StaticHi
                       THEN (IF x - StaticLo + 1 <= Len(a) THEN a[x - StaticLo + 1]
                             ELSE IF x - StaticLo = Len(a) THEN NUL ELSE Uninit)
                       ELSE (IF x - StaticHi <= Len(b) THEN b[x - StaticHi]
                             ELSE IF x - StaticHi - 1 = Len(b) THEN NUL ELSE Uninit)]
          /\ objs = [i \in Slots |->
                        IF i = 1
                        THEN [kind |-> "CString",
                              val |-> [buf |-> CStrBuf_new_internal(StaticLo, "None"),
                                       len |-> Len(a)]]
                        ELSE IF i = 2
                        THEN [kind |-> "CString",
                              val |-> [buf |-> CStrBuf_new_internal(StaticHi + 1, "None"),
                                       len |-> Len(b)]]
                        ELSE Empty]
    /\ blocks = {}
    /\ calls = [i \in Slots |-> <<>>]
    /\ born = [i \in Slots |->
                  IF i = 1 THEN Born("CString", StaticLo, "None")
                  ELSE IF i = 2 THEN Born("CString", StaticHi + 1, "None")
                  ELSE NoLife]
    /\ ret = Ret(<<"init">>, NULL, 0, <<>>, Ok(0, <<>>), 0)
    /\ frame = NoFrame

NextCmp == Compare

SpecCmp == InitCmp /\ [][NextCmp]_vars

\* ------------------------------------------------------------- claims
\* C1: a CStrBuf built by new_with_dtor or new_libc and never unwrapped has
\* its release closure called exactly once, with the address it was built
\* with, when its scope ends, whatever read-only methods and promotion came
\* before; until then, and in particular when into_c_str consumes it, nothing
\* is called.  A CStrBuf built by new_unowned never has anything called.
C1_ReleasedExactlyOnce ==
    \A i \in Slots :
        born[i].ctor = "CStrBuf" =>
            /\ born[i].fn = "None" => calls[i] = <<>>
            /\ born[i].fn # "None" /\ born[i].fate = "held" => calls[i] = <<>>
            /\ born[i].fn # "None" /\ born[i].fate = "dropped" =>
                   calls[i] = <<[fn |-> born[i].fn, arg |-> born[i].ptr]>>

\* A CStrBuf built with a closure, promoted, and then dropped as a CString.
C1_Witness ==
    /\ ret.op = <<"CString", "drop">>
    /\ born[ret.slot].ctor = "CStrBuf"
    /\ born[ret.slot].fn = "custom"
    /\ Len(calls[ret.slot]) = 1

\* C2: unwrap, of a CStrBuf or a CString, returns the address the value
\* held, and the release closure is called neither by unwrap nor afterwards.
C2_UnwrapCancelsRelease ==
    /\ ret.op \in {<<"CStrBuf", "unwrap">>, <<"CString", "unwrap">>} =>
           ret.val = ret.ptr
    /\ \A i \in Slots :
           born[i].fate = "unwrapped" =>
               calls[i] = <<>> /\ born[i].got = born[i].ptr

\* A CString that owned a malloc'ed buffer was unwrapped; the block is live.
C2_Witness ==
    /\ ret.op = <<"CString", "unwrap">>
    /\ born[ret.slot].fn = "libc_free"
    /\ \E blk \in blocks : blk.base = ret.val

\* C3: each of the seven adopting constructors, given the null pointer,
\* fails without having read a byte and without producing a value, whatever
\* length was declared.
C3_NullCheckedBeforeRead ==
    (ret.op[1] \in {"CStrBuf::new", "CString::new", "BorrowedCString::wrap"}
         /\ ret.ptr = NULL)
        => ~ret.ok /\ ret.reads = <<>> /\ ret.slot = 0 /\ AllEmpty

\* CString::new_unowned(null, len) with len > 0 was called.
C3_Witness ==
    /\ ret.op = <<"CString::new", "None">>
    /\ ret.ptr = NULL
    /\ ret.len > 0

\* C4: a CString constructor given a length fails unless the byte at
\* ptr + len is zero, and every CString in existence has a zero byte at
\* ptr + len.
C4_LengthInvariant ==
    /\ (ret.op[1] = "CString::new" /\ ret.ptr # NULL
            /\ mem[ret.ptr + ret.len] # NUL) => ~ret.ok /\ AllEmpty
    /\ \A i \in Slots :
           objs[i].kind = "CString" =>
               mem[objs[i].val.buf.ptr + objs[i].val.len] = NUL

\* A constructor was given a length that is not where the terminator is.
C4_Witness ==
    /\ ret.op[1] = "CString::new"
    /\ ret.ptr # NULL
    /\ mem[ret.ptr + ret.len] # NUL
    /\ ~ret.ok

\* C5: the checked conversion of a byte slice v without a zero byte succeeds
\* with a CString of length Len(v) whose as_bytes_no_nul() is v and whose
\* as_bytes() is v followed by one zero byte.
C5_RoundTrip ==
    (ret.op = <<"[u8]", "to_c_str">> /\ ~contains(ret.v, NUL)) =>
        /\ ret.ok
        /\ CString_len(ret.val) = Len(ret.v)
        /\ CString_as_bytes_no_nul(mem, ret.val) = ret.v
        /\ CString_as_bytes(mem, ret.val) = ret.v \o <<NUL>>

\* A slice of MaxLen non-zero bytes was converted.
C5_Witness ==
    /\ ret.op = <<"[u8]", "to_c_str">>
    /\ Len(ret.v) = MaxLen
    /\ ~contains(ret.v, NUL)
    /\ ret.ok

\* C6: the checked conversion of a byte slice with a zero byte in it fails,
\* and the step allocates nothing, writes nothing and produces no CString.
C6_CheckedSliceFailsBeforeAlloc ==
    [][(ret'.op = <<"[u8]", "to_c_str">> /\ contains(ret'.v, NUL)) =>
           ~ret'.ok /\ blocks' = blocks /\ mem' = mem /\ objs' = objs]_vars

\* The checked conversion of a slice with a zero byte was attempted.
C6_Witness ==
    /\ ret.op = <<"[u8]", "to_c_str">>
    /\ contains(ret.v, NUL)
    /\ ~ret.ok
    /\ blocks = {}

\* C7: the checked conversion fails for every source type, CString and
\* BorrowedCString included, when the source's bytes within its logical
\* length contain a zero byte.
C7_CheckedFailsOnEmbeddedNul ==
    (ret.op \in {<<k, "to_c_str">> :
                     k \in {"[u8]", "CStrBuf", "CString", "BorrowedCString"}}
         /\ contains(ret.v, NUL)) => ~ret.ok

\* C8: the unchecked conversion of a byte slice v with a zero byte in it
\* succeeds with a CString of length Len(v) whose buffer is v verbatim with a
\* zero byte at index Len(v), and in which strlen stops at the first embedded
\* zero, short of the length.
C8_UncheckedKeepsEmbeddedNul ==
    (ret.op = <<"[u8]", "to_c_str_unchecked">> /\ contains(ret.v, NUL)) =>
        /\ ret.ok
        /\ CString_len(ret.val) = Len(ret.v)
        /\ MemRead(mem, CString_as_ptr(ret.val), Len(ret.v) + 1) = ret.v \o <<NUL>>
        /\ strlen(mem, CString_as_ptr(ret.val)) < CString_len(ret.val)
        /\ \A k \in 1..Len(ret.v) :
               (ret.v[k] = NUL /\ \A j \in 1..(k - 1) : ret.v[j] # NUL) =>
                   strlen(mem, CString_as_ptr(ret.val)) = k - 1

\* A slice whose second byte is zero was converted unchecked.
C8_Witness ==
    /\ ret.op = <<"[u8]", "to_c_str_unchecked">>
    /\ Len(ret.v) = MaxLen
    /\ ret.v[2] = NUL
    /\ ret.ok

\* C9: in with_c_str, with_c_str_len and their unchecked variants, a buffer
\* the call allocated is live and unreleased while the visitor runs, is
\* released only after the visitor ended, and has been released exactly once,
\* with nothing left allocated, when the call has returned or unwound, be it
\* by the visitor's return, by its panic, or by the failed check.
C9_ScopedAccessNeverLeaks ==
    /\ (frame.pc = "in_f" /\ frame.path = "heap") =>
           /\ \E blk \in blocks : blk.base = frame.args[1]
           /\ calls[1] = <<>>
    /\ calls[1] # <<>> => frame.pc \in {"returned", "unwound"} /\ frame.visits = 1
    /\ frame.pc \in {"returned", "unwound"} =>
           /\ blocks = {}
           /\ AllEmpty
           /\ frame.path = "heap" =>
                  calls[1] = <<[fn |-> "libc_free", arg |-> frame.args[1]]>>
           /\ frame.path # "heap" => calls[1] = <<>>

\* The visitor panicked on a heap copy, and the call has unwound.
C9_Witness ==
    /\ frame.pc = "unwound"
    /\ frame.path = "heap"
    /\ frame.fres = "panic"
    /\ Len(calls[1]) = 1

\* C10: for a slice v without a zero byte, of a length below, at or above
\* BUF_LEN, with_c_str_len calls the visitor exactly once, with an address at
\* which the bytes of v are followed by a zero byte, and with Len(v).
C10_PathEquivalence ==
    (frame.entry = "[u8]" /\ frame.pc # "idle" /\ ~contains(frame.v, NUL)) =>
        /\ frame.path \in {"stack", "heap"}
        /\ frame.args[2] = Len(frame.v)
        /\ frame.pc = "in_f" =>
               /\ frame.visits = 0
               /\ MemRead(mem, frame.args[1], Len(frame.v) + 1) = frame.v \o <<NUL>>
        /\ frame.pc # "in_f" =>
               /\ frame.visits = 1
               /\ frame.seen = frame.v \o <<NUL>>

\* A slice of exactly BUF_LEN non-zero bytes was visited on the heap.
C10_Witness ==
    /\ frame.pc = "returned"
    /\ frame.entry = "[u8]"
    /\ frame.with_len
    /\ Len(frame.v) = BUF_LEN
    /\ ~contains(frame.v, NUL)
    /\ frame.path = "heap"
    /\ frame.visits = 1

\* C11, as stated: a slice of at most BUF_LEN bytes is visited on the stack
\* with nothing allocated, and only a longer one on the heap.
C11_StackUpToThreshold ==
    (frame.entry = "[u8]" /\ frame.pc = "in_f") =>
        /\ Len(frame.v) <= BUF_LEN => frame.path = "stack" /\ blocks = {}
        /\ frame.path = "heap" => Len(frame.v) > BUF_LEN

\* C11, amended: a slice shorter than BUF_LEN bytes never reaches the
\* allocator (it is visited on the stack, or fails the check); a slice of
\* BUF_LEN bytes or more that is visited is visited on a heap copy.
C11_StackBelowThreshold ==
    (frame.entry = "[u8]" /\ frame.pc # "idle") =>
        /\ Len(frame.v) < BUF_LEN =>
               /\ frame.path # "heap"
               /\ frame.pc = "in_f" => frame.path = "stack"
               /\ blocks = {}
               /\ born[1].fate = "none"
        /\ (Len(frame.v) >= BUF_LEN /\ frame.path # "none") =>
               /\ frame.path = "heap"
               /\ born[1].ctor = "dup"
               /\ frame.pc = "in_f" => blocks # {}

\* A slice of exactly BUF_LEN bytes is being visited on the heap.
C11_Witness ==
    /\ frame.entry = "[u8]"
    /\ frame.pc = "in_f"
    /\ Len(frame.v) = BUF_LEN
    /\ frame.path = "heap"
    /\ blocks # {}

\* C12: on a multistring of n non-empty segments and a closing empty one,
\* from_c_multistring calls the callback m times, the i-th time with a view
\* of the i-th segment (its address, length and bytes), and returns m, where
\* m = n without a limit and m = min(limit, n) with one.
C12_MultistringWalk ==
    frame.pc \in {"loop", "done"} =>
        LET n == Len(frame.segs)
            m == IF frame.limited_count /\ frame.limit < n THEN frame.limit ELSE n
        IN  /\ frame.ctr <= m
            /\ Len(frame.seen) = frame.ctr
            /\ \A i \in 1..frame.ctr :
                   /\ frame.seen[i].bytes = frame.segs[i]
                   /\ frame.seen[i].len = Len(frame.segs[i])
                   /\ frame.seen[i].ptr = SegStart(frame.buf, frame.segs, i)
            /\ frame.pc = "done" =>
                   /\ frame.ctr = m
                   /\ ret.op = <<"from_c_multistring">> /\ ret.val = m

\* A walk of two segments stopped by a limit of one.
C12_Witness ==
    /\ frame.pc = "done"
    /\ Len(frame.segs) = 2
    /\ frame.limited_count
    /\ frame.limit = 1
    /\ frame.ctr = 1

\* C13: after k calls of next() on an iterator started at a buffer whose
\* first terminator is L bytes on, the calls have returned the bytes before
\* the terminator, in order, and None from then on, and the cursor is
\* min(k, L) bytes on: it never passes the terminator.
C13_IteratorStopsAtTerminator ==
    frame.pc = "iter" =>
        LET L == strlen(mem, frame.start)
            n == IF frame.k < L THEN frame.k ELSE L
        IN  /\ Len(frame.out) = frame.k
            /\ \A i \in 1..frame.k :
                   frame.out[i] = IF i <= L THEN Some(mem[frame.start + i - 1])
                                  ELSE None
            /\ frame.it.ptr = frame.start + n
            /\ mem[frame.start + L] = NUL

\* next() was called twice after the last byte of a string of two or more.
C13_Witness ==
    /\ frame.pc = "iter"
    /\ strlen(mem, frame.start) >= 2
    /\ frame.k = strlen(mem, frame.start) + 2
    /\ ret.op = <<"CChars", "next">>
    /\ ret.val = None

\* C14: after k calls of next() on an iterator over a buffer of scan length
\* L, remaining_c_str() returns the view at start + min(k, L) of length
\* L - min(k, L), and the cursor is where it was.
C14_RemainingIsSuffix ==
    (frame.pc = "iter" /\ ret.op = <<"CChars", "remaining_c_str">>) =>
        LET L == strlen(mem, frame.start)
            n == IF frame.k < L THEN frame.k ELSE L
        IN  /\ ret.ok
            /\ ret.val = [ptr |-> frame.start + n, len |-> L - n]
            /\ frame.it.ptr = ret.ptr

\* remaining_c_str() was called after one next(), with bytes left.
C14_Witness ==
    /\ frame.pc = "iter"
    /\ ret.op = <<"CChars", "remaining_c_str">>
    /\ frame.k = 1
    /\ ret.val.len >= 1
    /\ ret.val.ptr = frame.start + 1

\* The bytes of a CString without the terminator.
Content(i) == CString_as_bytes_no_nul(mem, objs[i].val)

\* a is lexicographically less than b: at the first index where they are
\* not the same, a has ended or has the smaller byte.
LexLess(a, b) ==
    \E i \in 1..Len(b) :
        /\ \A j \in 1..(i - 1) : j <= Len(a) /\ a[j] = b[j]
        /\ i > Len(a) \/ a[i] < b[i]

\* C15: ==, partial_cmp and cmp of two CStrings give what comparing their
\* contents without the terminator gives, also when one content is a proper
\* prefix of the other and when the contents hold zero bytes.
C15_CompareByContent ==
    ret.op = <<"CString", "cmp">> =>
        /\ ret.val.eq <=> Content(1) = Content(2)
        /\ ret.val.cmp =
               (IF Content(1) = Content(2) THEN "Equal"
                ELSE IF LexLess(Content(1), Content(2)) THEN "Less" ELSE "Greater")
        /\ ret.val.partial_cmp = Some(ret.val.cmp)

\* A string was compared with a longer one that goes on with a zero byte.
C15_Witness ==
    /\ ret.op = <<"CString", "cmp">>
    /\ Len(Content(1)) < Len(Content(2))
    /\ Content(1) = SubSeq(Content(2), 1, Len(Content(1)))
    /\ Content(2)[Len(Content(1)) + 1] = NUL
    /\ ret.val.cmp = "Less"

\* C16: taking a view of a held value, using it and letting it go changes
\* neither memory, the heap, the values held nor the closures called; the
\* view of a CString has the CString's address and cached length, the view
\* of a CStrBuf its address.
C16_BorrowLeavesOwner ==
    [][\A i \in Slots :
           (ret'.op \in {<<"CStrBuf", "borrow">>, <<"CString", "borrow">>}
                /\ ret'.slot = i) =>
               /\ UNCHANGED <<mem, blocks, objs, calls, born>>
               /\ ret'.val.view.ptr = ObjPtr(objs[i])
               /\ objs[i].kind = "CString" => ret'.val.view.len = objs[i].val.len
               /\ ret'.val.remaining_c_str.ptr = ObjPtr(objs[i])]_vars

\* A view was taken of a CString that owes a free(), and the CString is
\* still held with nothing released.
C16_Witness ==
    /\ ret.op = <<"CString", "borrow">>
    /\ born[ret.slot].fn = "libc_free"
    /\ born[ret.slot].fate = "held"
    /\ objs[ret.slot].kind = "CString"
    /\ calls[ret.slot] = <<>>

\* C17: into_c_str gives a CString with the address of the CStrBuf, the
\* length that a terminator scan of the buffer gives, and the release
\* closure of the CStrBuf (owns_buffer as before); the step writes no byte,
\* allocates and frees nothing, calls no closure, and len() of the result is
\* the length cached then.
C17_PromotionKeepsBuffer ==
    [][\A i \in Slots :
           (ret'.op = <<"CStrBuf", "into_c_str">> /\ ret'.slot = i) =>
               /\ objs[i].kind = "CStrBuf"
               /\ objs'[i] = [kind |-> "CString", val |-> ret'.val]
               /\ CString_as_ptr(ret'.val) = CStrBuf_as_ptr(objs[i].val)
               /\ CString_len(ret'.val) = strlen(mem, objs[i].val.ptr)
               /\ ret'.val.buf.dtor = objs[i].val.dtor
               /\ CString_owns_buffer(ret'.val) = CStrBuf_owns_buffer(objs[i].val)
               /\ UNCHANGED <<mem, blocks, calls, born>>]_vars

\* A non-empty CStrBuf with a closure of the caller's was promoted.
C17_Witness ==
    /\ ret.op = <<"CStrBuf", "into_c_str">>
    /\ objs[ret.slot].kind = "CString"
    /\ objs[ret.slot].val.buf.dtor = "custom"
    /\ objs[ret.slot].val.len >= 1
    /\ calls[ret.slot] = <<>>

\* The addresses of the heap block at p, if there is one.
BlockAt(bl, p) == UNION {blk.base..(blk.base + blk.size - 1) : blk \in {b \in bl : b.base = p}}

\* C18: a to_c_str that returns gives a CString over a block allocated by
\* that call, away from the source's address, holding the source's content
\* and a terminator, with free() as its release; the call changes no other
\* byte, block or value.  Dropping such a copy frees its block, once, and
\* leaves every other byte, block and value as it was.
C18_ConversionCopies ==
    [][/\ (ret'.op \in {<<k, "to_c_str">> :
                          k \in {"[u8]", "CStrBuf", "CString", "BorrowedCString"}}
              /\ ret'.ok) =>
              LET c   == ret'.val
                  new == [base |-> c.buf.ptr, size |-> c.len + 1]
              IN  /\ new \notin blocks
                  /\ blocks' = blocks \cup {new}
                  /\ c.buf.ptr # ret'.ptr
                  /\ c.buf.dtor = "libc_free"
                  /\ CString_as_bytes(mem', c) = ret'.v \o <<NUL>>
                  /\ objs'[ret'.slot] = [kind |-> "CString", val |-> c]
                  /\ \A a \in DOMAIN mem \ BlockAt(blocks', c.buf.ptr) : mem'[a] = mem[a]
                  /\ ret'.op[1] # "[u8]" =>
                         \A j \in Slots \ {ret'.slot} :
                             objs'[j] = objs[j] /\ calls'[j] = calls[j]
                                 /\ born'[j] = born[j]
       /\ \A i \in Slots :
              (ret'.op = <<"CString", "drop">> /\ ret'.slot = i
                   /\ born[i].ctor = "dup") =>
                  /\ calls'[i] = <<[fn |-> "libc_free", arg |-> born[i].ptr]>>
                  /\ blocks' = {blk \in blocks : blk.base # born[i].ptr}
                  /\ \A a \in DOMAIN mem \ BlockAt(blocks, born[i].ptr) : mem'[a] = mem[a]
                  /\ \A j \in Slots \ {i} :
                         objs'[j] = objs[j] /\ calls'[j] = calls[j]
      ]_vars

\* The copy of a CString that owns a malloc'ed buffer was dropped while the
\* source is still held, its buffer live and nothing released for it.
C18_Witness ==
    /\ ret.op = <<"CString", "drop">>
    /\ born[ret.slot].ctor = "dup"
    /\ \E j \in Slots \ {ret.slot} :
           /\ objs[j].kind = "CString"
           /\ born[j].fn = "libc_free"
           /\ calls[j] = <<>>
           /\ \E blk \in blocks : blk.base = objs[j].val.buf.ptr

\* C19, as stated: the walk allocates once for every segment it visits and
\* releases that allocation before the next one, so that after ctr segments
\* ctr allocations have been released and none is left.
C19_AllocatesPerSegment ==
    frame.pc \in {"loop", "done", "unwound"} =>
        /\ blocks = {}
        /\ Len(calls[1]) = frame.ctr

\* C19, amended: the walk is read-only and allocates nothing: the length of
\* each segment comes from new_unowned and into_c_str on the segment itself,
\* so no block is ever allocated, no release closure is ever called, and the
\* bytes of the multistring stay as they were.
C19_WalkAllocatesNothing ==
    frame.pc \in {"loop", "done", "unwound"} =>
        /\ blocks = {}
        /\ \A i \in Slots : calls[i] = <<>>
        /\ MemRead(mem, frame.buf, Len(MultiBytes(frame.segs, frame.closed)))
               = MultiBytes(frame.segs, frame.closed)
        /\ mem = MultiMem(frame.segs, frame.closed)

\* Two segments were visited and the walk has returned.
C19_Witness ==
    /\ frame.pc = "done"
    /\ ~frame.limited_count
    /\ frame.ctr = 2
    /\ Len(frame.seen) = 2
    /\ blocks = {}

\* C20: for a slice with a zero byte in it, shorter than BUF_LEN or not, the
\* checked with_c_str / with_c_str_len fail with the visitor never called and
\* nothing allocated; the unchecked ones call the visitor, exactly once.
C20_CheckedScopedFailsUnvisited ==
    (frame.entry = "[u8]" /\ frame.pc # "idle" /\ contains(frame.v, NUL)) =>
        /\ frame.checked =>
               /\ frame.pc = "unwound"
               /\ frame.visits = 0
               /\ frame.path = "none"
               /\ blocks = {}
        /\ ~frame.checked =>
               /\ frame.path = (IF Len(frame.v) < BUF_LEN THEN "stack" ELSE "heap")
               /\ frame.pc = "in_f" => frame.visits = 0
               /\ frame.pc # "in_f" => frame.visits = 1

\* The checked call on a slice of BUF_LEN bytes or more with a zero byte has
\* failed.
C20_Witness ==
    /\ frame.entry = "[u8]"
    /\ frame.checked
    /\ Len(frame.v) >= BUF_LEN
    /\ contains(frame.v, NUL)
    /\ frame.pc = "unwound"
    /\ frame.visits = 0

\* C21: when new_with_dtor or new_libc, of CStrBuf or of CString, fails, on
\* a null address or on a declared length not followed by a zero byte, the
\* step creates no value, calls no closure, and frees and writes nothing:
\* the buffer is as live as it was.
C21_FailedAdoptionReleasesNothing ==
    [][(ret'.op \in {<<t, d>> : t \in {"CStrBuf::new", "CString::new"},
                               d \in {"libc_free", "custom"}}
            /\ ~ret'.ok) =>
           /\ UNCHANGED <<mem, blocks, objs, calls, born>>
           /\ ret'.slot = 0]_vars

\* CString::new_libc failed on a live heap block, given a length that is not
\* where its terminator is; the block is still live and nothing was called.
C21_Witness ==
    /\ ret.op = <<"CString::new", "libc_free">>
    /\ ~ret.ok
    /\ ret.ptr # NULL
    /\ \E blk \in blocks : blk.base = ret.ptr
    /\ \A i \in Slots : calls[i] = <<>>

\* C22: every address from_c_multistring reads, in the loop test and in the
\* strlen of the loop body, is inside the buffer: up to the terminator of the
\* closing empty segment, or up to the terminator of the last segment when
\* there is no closing one; and once ctr has reached the limit, every address
\* read is before the cursor, which is just past the terminator of the last
\* visited segment.
C22_NoReadBeyondRegion ==
    frame.pc \in {"loop", "done", "unwound"} =>
        /\ \A k \in 1..Len(frame.reads) :
               /\ frame.reads[k] >= frame.buf
               /\ frame.reads[k] < frame.buf + Len(MultiBytes(frame.segs, frame.closed))
        /\ (frame.limited_count /\ frame.ctr = frame.limit) =>
               \A k \in 1..Len(frame.reads) : frame.reads[k] < frame.curr_ptr

\* A buffer of two segments and no closing one, walked with a limit of two.
C22_Witness ==
    /\ frame.pc = "done"
    /\ ~frame.closed
    /\ Len(frame.segs) = 2
    /\ frame.limited_count
    /\ frame.limit = 2
    /\ frame.ctr = 2
    /\ Len(frame.reads) >= 2 + Len(frame.segs[1]) + 1 + Len(frame.segs[2]) + 1
    /\ ret.val = 2

\* C23: when with_c_str_len takes the stack path, the slice has fewer than
\* BUF_LEN bytes; the writes into the scratch array are the len bytes of the
\* slice at indices 0..len-1 and then the terminator at index len, every index
\* below BUF_LEN; and when the visitor is running it has been given the
\* address of the array and the terminator is in place at index len.
C23_StackWritesInBounds ==
    (frame.pc # "idle" /\ frame.path = "stack") =>
        LET len == Len(frame.v)
        IN  /\ len < BUF_LEN
            /\ Len(frame.writes) = len + 1
            /\ \A k \in 1..len :
                   frame.writes[k] = [idx |-> k - 1, byte |-> frame.v[k]]
            /\ frame.writes[len + 1] = [idx |-> len, byte |-> NUL]
            /\ \A k \in 1..(len + 1) :
                   /\ frame.writes[k].idx \in 0..(BUF_LEN - 1)
                   /\ StackLo + frame.writes[k].idx \in StackAddrs
            /\ frame.pc \in {"in_f", "after_f"} =>
                   /\ frame.args = <<StackLo, len>>
                   /\ Load(mem, StackLo + len) = NUL
                   /\ MemRead(mem, StackLo, len) = frame.v

\* The visitor runs on the stack copy of the longest slice that takes the
\* stack path: the terminator is at the last index of the array.
C23_Witness ==
    /\ frame.pc = "in_f"
    /\ frame.path = "stack"
    /\ Len(frame.v) = BUF_LEN - 1
    /\ frame.writes[BUF_LEN].idx = BUF_LEN - 1
    /\ mem[NULL - 1] = NUL
====
